---- MODULE Spec2Model ----
(***************************************************************************)
(* A model of deversion.py: the restore of the latest live version of      *)
(* every file of a Cloudberry backup tree (restoreFolder), the resolution  *)
(* of one version folder (getLatestVersionPath, restoreLatestVersion) and  *)
(* the pool of copy workers (FileCopyWorker, FileCopyWorkerPool).          *)
(*                                                                         *)
(* Encodings.  A string that is compared by the program (a version date    *)
(* folder name, the cutoff date) is a sequence of digits, compared as      *)
(* Python compares str.  A Python value that may be None is a sequence of  *)
(* length at most one: <<>> is None and <<x>> is x.  A backup path is the  *)
(* sequence of listing positions leading to it from the backup root; the   *)
(* name of a child of a directory is its listing position, so that the     *)
(* children of one directory have distinct names.  A restored file is      *)
(* [dir, name]: the mirrored directory and the file name.                  *)
(***************************************************************************)
EXTENDS Naturals, Integers, Sequences, FiniteSets, TLC

VARIABLES
  backup,                    \* the backup tree below backupRootPath
  restoreDeletionsAfterDate, \* argument: <<>> (None) or <<cutoff>>
  numWorkers,                \* argument: 0 (None) or the number of workers
  deleteEmptyDirectories,    \* argument
  dryRun,                    \* argument
  skipDirectories,           \* argument: the set of backup paths to skip
  pc,                        \* where the main process is
  stack,                     \* the active restoreFolder calls, innermost last
  returned,                  \* <<>> or <<the tuple the top-level call returned>>
  pools,                     \* the FileCopyWorkerPool objects created
  workers,                   \* the FileCopyWorker processes of each pool
  dstDirs,                   \* the directories that exist below restorePath
  dstFiles,                  \* the files that exist below restorePath
  run,                       \* the number of the program run
  preExisting,               \* history: dstFiles when the run started
  copyLog,                   \* history: the shutil.copy calls of the run
  submitted,                 \* history: the jobs put on queues in the run
  errors                     \* history: the exceptions caught at 306-313

\* the arguments of the run, which restoreFolder passes on unchanged
args == <<backup, restoreDeletionsAfterDate, numWorkers, deleteEmptyDirectories,
          dryRun>>

vars == <<args, skipDirectories, pc, stack, returned, pools, workers,
          dstDirs, dstFiles, run, preExisting, copyLog, submitted, errors>>

----------------------------------------------------------------------------
(* Program constants                                                       *)

deletedFileName == "cbbdeleted"

\* FileCopyWorker.queue = mp.Queue(maxsize=100)
QueueMaxSize == 100

\* len(str(subpath)) > 260
MaxPathLen == 260

\* def restoreFolder(..., numWorkers=4, ...)
DefaultNumWorkers == 4

----------------------------------------------------------------------------
(* Bounds of the model                                                     *)

\* most nodes (directories, version folders, files) below the backup root
MaxNodes == 3
\* most version date folders of the version folder of VersionSpec
MaxVersions == 3
\* most workers of the pool of the main program
MaxWorkers == 1
\* most nodes below the backup root, and most runs, when the program is run
\* again on the destination of an earlier run
MaxRerunNodes == 2
MaxRuns == 2
\* nodes of the backup trees that are walked with a skip list
MaxSkipNodes == 3
\* nodes of the backup trees whose walk is interrupted
MaxInterruptNodes == 3
\* most version folders of the directory restored through a pool, and most
\* workers of that pool
MaxPoolJobs == 3
MaxPoolWorkers == 2
\* version folders, beyond the capacity of a queue, of the directory whose
\* restore fills the queue of the only worker
MaxExtraJobs == 1
\* len(str(backupRootPath)), and the lengths of a short and of a long name
RootPathLen == 20
ShortNameLen == 8
LongNameLen == 250

----------------------------------------------------------------------------
(* Python values                                                           *)

None == <<>>
Some(x) == <<x>>
IsNone(v) == v = <<>>
Val(v) == v[1]

\* a < b for two str values (sequences of digits): lexicographic, a proper
\* prefix being smaller
RECURSIVE StrLess(_, _)
StrLess(a, b) ==
  IF a = <<>> THEN b # <<>>
  ELSE IF b = <<>> THEN FALSE
  ELSE IF Head(a) = Head(b) THEN StrLess(Tail(a), Tail(b))
  ELSE Head(a) < Head(b)

StrGreater(a, b) == StrLess(b, a)

RECURSIVE SumSeq(_)
SumSeq(s) == IF s = <<>> THEN 0 ELSE Head(s) + SumSeq(Tail(s))

Range(s) == {s[i] : i \in 1..Len(s)}

----------------------------------------------------------------------------
(* The backup tree                                                         *)
(*                                                                         *)
(* A node is [kind, long, gone, sub]: kind "dir" (a plain directory, sub   *)
(* its children in listing order), "vf" (a version folder, its name ends   *)
(* with the marker character; sub its version date folders in listing      *)
(* order) or "file" (a plain file).  long: its name is LongNameLen long.   *)
(* gone: it is removed by another process after its parent was listed,     *)
(* before the walk calls is_dir() for it or after.                         *)
(* A version date folder is [name, files]: its name and the names of the   *)
(* files in it, in listing order.                                          *)

Dir(children) == [kind |-> "dir", long |-> FALSE, gone |-> FALSE, sub |-> children]
VersionFolder(entries) == [kind |-> "vf", long |-> FALSE, gone |-> FALSE, sub |-> entries]
PlainFile == [kind |-> "file", long |-> FALSE, gone |-> FALSE, sub |-> <<>>]

RECURSIVE NodeAt(_, _)
NodeAt(node, path) ==
  IF path = <<>> THEN node ELSE NodeAt(node.sub[Head(path)], Tail(path))

\* Path.iterdir() of a directory of the backup: the paths of its children
iterdir(path) == [i \in 1..Len(NodeAt(backup, path).sub) |-> Append(path, i)]

\* len(str(path)): the root's length, and a separator and a name per level
RECURSIVE NamesLen(_, _)
NamesLen(node, path) ==
  IF path = <<>> THEN 0
  ELSE LET child == node.sub[Head(path)]
       IN  1 + (IF child.long THEN LongNameLen ELSE ShortNameLen)
             + NamesLen(child, Tail(path))

\* len(subpath.name): the length of the last name only
PathLenOfName(path) ==
  IF path = <<>> THEN RootPathLen
  ELSE IF NodeAt(backup, path).long THEN LongNameLen ELSE ShortNameLen

PathLen(path) == RootPathLen + NamesLen(backup, path)

\* isVersionFolder: folderPath.name[-1] is the marker character
isVersionFolder(node) == node.kind = "vf"

\* Path.is_dir()
is_dir(node) == node.kind \in {"dir", "vf"}

\* isFileDeleted: versionPath.name == deletedFileName
isFileDeleted(versionPath) == versionPath.name = deletedFileName

----------------------------------------------------------------------------
(* getLatestVersionPath                                                    *)

\* sorted(..., key=lambda p: p.name, reverse=True): a stable sort, largest
\* name first
RECURSIVE InsertReverse(_, _)
InsertReverse(e, s) ==
  IF s = <<>> THEN <<e>>
  ELSE IF ~StrLess(e.name, Head(s).name) THEN <<e>> \o s
  ELSE <<Head(s)>> \o InsertReverse(e, Tail(s))

\* sorted without reverse=True
sortedReverseUnsorted(s) == s

RECURSIVE sortedReverse(_)
sortedReverse(s) ==
  IF s = <<>> THEN <<>> ELSE InsertReverse(Head(s), sortedReverse(Tail(s)))

\* The loop over the version date folders, newest first.  A file of a
\* version date folder is [date, name].  next(versionDatePath.iterdir())
\* is the first file listed, and raises StopIteration when there is none.
RECURSIVE scanVersions(_, _, _, _)
scanVersions(versionDatePaths, latestVersionPath, deletionDate, versionCount) ==
  IF versionDatePaths = <<>>
  THEN [exc |-> "", latestVersionPath |-> latestVersionPath,
        deletionDate |-> deletionDate, versionCount |-> versionCount]
  ELSE LET versionDatePath == Head(versionDatePaths) IN
       IF versionDatePath.files = <<>>
       THEN [exc |-> "StopIteration", latestVersionPath |-> latestVersionPath,
             deletionDate |-> deletionDate, versionCount |-> versionCount]
       ELSE LET first == [date |-> versionDatePath.name,
                          name |-> Head(versionDatePath.files)] IN
            IF isFileDeleted(first)
            THEN scanVersions(Tail(versionDatePaths), Some(first),
                              Some(versionDatePath.name), versionCount - 1)
            ELSE [exc |-> "", latestVersionPath |-> Some(first),
                  deletionDate |-> deletionDate, versionCount |-> versionCount]

\* getLatestVersionPath(versionFolderPath): [exc, latestVersionPath,
\* deletionDate, versionCount]; exc is the exception it raises, "" if none
getLatestVersionPath(versionFolder) ==
  IF versionFolder.gone
  THEN [exc |-> "FileNotFoundError", latestVersionPath |-> None,
        deletionDate |-> None, versionCount |-> 0]
  ELSE LET versionDatePaths == sortedReverse(versionFolder.sub)
       IN  scanVersions(versionDatePaths, None, None, Len(versionDatePaths))

\* restore with the deletion of a file ignored when no cutoff is given
restoreWithoutCutoff(deletionDate, cutoff) ==
  IF ~IsNone(deletionDate) /\ ~IsNone(cutoff)
  THEN StrGreater(Val(deletionDate), Val(cutoff))
  ELSE TRUE

\* restoreLatestVersion, lines 121-133: the value of restore
restore(deletionDate, cutoff) ==
  IF ~IsNone(deletionDate)
  THEN IF ~IsNone(cutoff)
       THEN StrGreater(Val(deletionDate), Val(cutoff))
       ELSE FALSE
  ELSE TRUE

----------------------------------------------------------------------------
(* The destination: Path.exists, Path.mkdir, Path.rmdir, shutil.copy       *)

\* the files and directories directly in directory d of the destination
FilesIn(d) == {f \in dstFiles : f.dir = d}
DirsIn(d) == {e \in dstDirs : Len(e) = Len(d) + 1 /\ SubSeq(e, 1, Len(d)) = d}

\* a worker that does not look for the file before it copies
FileNeverExists(dst) == FALSE

\* dstPath.exists() for the destination [dir, name] of a copy
FileExists(dst) == \E f \in dstFiles : f.dir = dst.dir /\ f.name = dst.name

\* shutil.copy(src, dst) can write dst only into a directory that exists
CanCopyTo(dst) == dst.dir \in dstDirs

\* dstFiles after shutil.copy(src, dst) has written dst
Copied(src, dst) ==
  {f \in dstFiles : ~(f.dir = dst.dir /\ f.name = dst.name)}
    \cup {[dir |-> dst.dir, name |-> dst.name, src |-> Some(src)]}

\* nextRestorePath.rmdir() removes an existing, empty directory only
CanRmdir(d) == d \in dstDirs /\ FilesIn(d) = {} /\ DirsIn(d) = {}

----------------------------------------------------------------------------
(* FileCopyWorker and FileCopyWorkerPool                                   *)
(*                                                                         *)
(* pools[p] is the p-th FileCopyWorkerPool object created in the run and   *)
(* workers[p][w] its worker process w (0 .. numWorkers - 1).               *)

EXIT == [type |-> "exit", src |-> None, dst |-> None]
Job(srcPath, dstPath) == [type |-> "copy", src |-> Some(srcPath), dst |-> Some(dstPath)]

\* FileCopyWorker.__init__ and start()
NewWorker == [queue |-> <<>>, state |-> "get", msg |-> None, failedCount |-> 0]

\* FileCopyWorkerPool.__init__: the pool object of the main process.  Its
\* failedCount is the main process's copy of each worker's attribute, which
\* a worker process increments in its own memory only.
NewPool(n) ==
  [numWorkers |-> n, workerIndex |-> 0, isClosed |-> FALSE, closing |-> 0,
   failedCount |-> [w \in 0..(n - 1) |-> 0]]

\* copyFile without line 91: every job goes to the same worker
NextWorkerIndexStuck(p) == pools[p].workerIndex

\* FileCopyWorkerPool.copyFile, line 91: workerIndex after a job was put
NextWorkerIndex(p) == (pools[p].workerIndex + 1) % pools[p].numWorkers

\* a queue made without maxsize
CanPutAlways(p, w) == TRUE

\* a queue that hands out the message put last first
PutFirst(p, w, msg) == [workers EXCEPT ![p][w].queue = <<msg>> \o @]

\* queue.put(msg) on worker w of pool p blocks while the queue is full
CanPut(p, w) == Len(workers[p][w].queue) < QueueMaxSize
Put(p, w, msg) == [workers EXCEPT ![p][w].queue = Append(@, msg)]

\* a worker that was not told of the dry run
WorkerGetNoDryRun(p, w) ==
  /\ workers[p][w].state = "get"
  /\ workers[p][w].queue # <<>>
  /\ LET msg == Head(workers[p][w].queue)
         rest == Tail(workers[p][w].queue)
     IN  workers' =
           IF msg.type = "exit"
           THEN [workers EXCEPT ![p][w].queue = rest, ![p][w].state = "exited"]
           ELSE IF FileExists(Val(msg.dst))
           THEN [workers EXCEPT ![p][w].queue = rest]
           ELSE [workers EXCEPT ![p][w].queue = rest, ![p][w].state = "copy",
                                ![p][w].msg = Some(msg)]
  /\ UNCHANGED <<args, skipDirectories, pc, stack,
                 returned, pools, dstDirs, dstFiles, run, preExisting, copyLog,
                 submitted, errors>>

\* a worker that drops the stop signal and waits for the next message
WorkerGetIgnoringExit(p, w) ==
  /\ workers[p][w].state = "get"
  /\ workers[p][w].queue # <<>>
  /\ LET msg == Head(workers[p][w].queue)
         rest == Tail(workers[p][w].queue)
     IN  workers' =
           IF msg.type = "exit" \/ FileExists(Val(msg.dst)) \/ dryRun
           THEN [workers EXCEPT ![p][w].queue = rest]
           ELSE [workers EXCEPT ![p][w].queue = rest, ![p][w].state = "copy",
                                ![p][w].msg = Some(msg)]
  /\ UNCHANGED <<args, skipDirectories, pc, stack,
                 returned, pools, dstDirs, dstFiles, run, preExisting, copyLog,
                 submitted, errors>>

\* a worker that takes the message put last
WorkerGetNewest(p, w) ==
  /\ workers[p][w].state = "get"
  /\ workers[p][w].queue # <<>>
  /\ LET msg == workers[p][w].queue[Len(workers[p][w].queue)]
         rest == SubSeq(workers[p][w].queue, 1, Len(workers[p][w].queue) - 1)
     IN  workers' =
           IF msg.type = "exit"
           THEN [workers EXCEPT ![p][w].queue = rest, ![p][w].state = "exited"]
           ELSE IF FileExists(Val(msg.dst)) \/ dryRun
           THEN [workers EXCEPT ![p][w].queue = rest]
           ELSE [workers EXCEPT ![p][w].queue = rest, ![p][w].state = "copy",
                                ![p][w].msg = Some(msg)]
  /\ UNCHANGED <<args, skipDirectories, pc, stack,
                 returned, pools, dstDirs, dstFiles, run, preExisting, copyLog,
                 submitted, errors>>

\* FileCopyWorker.run, lines 42-60: get a message; exit on EXIT; skip a
\* destination that exists and a dry run; otherwise go on to the copy
WorkerGet(p, w) ==
  /\ workers[p][w].state = "get"
  /\ workers[p][w].queue # <<>>
  /\ LET msg == Head(workers[p][w].queue)
         rest == Tail(workers[p][w].queue)
     IN  workers' =
           IF msg.type = "exit"
           THEN [workers EXCEPT ![p][w].queue = rest, ![p][w].state = "exited"]
           ELSE IF FileExists(Val(msg.dst)) \/ dryRun
           THEN [workers EXCEPT ![p][w].queue = rest]
           ELSE [workers EXCEPT ![p][w].queue = rest, ![p][w].state = "copy",
                                ![p][w].msg = Some(msg)]
  /\ UNCHANGED <<args, skipDirectories, pc, stack,
                 returned, pools, dstDirs, dstFiles, run, preExisting, copyLog,
                 submitted, errors>>

\* a worker that a failed copy ends
WorkerCopyStopping(p, w) ==
  /\ workers[p][w].state = "copy"
  /\ LET src == Val(Val(workers[p][w].msg).src)
         dst == Val(Val(workers[p][w].msg).dst)
     IN  \E ok \in {b \in BOOLEAN : b => CanCopyTo(dst)} :
           /\ dstFiles' = IF ok THEN Copied(src, dst) ELSE dstFiles
           /\ copyLog' = copyLog \cup {[src |-> src, dst |-> dst, ok |-> ok]}
           /\ workers' = [workers EXCEPT
                 ![p][w].state = IF ok THEN "get" ELSE "exited",
                 ![p][w].msg = None,
                 ![p][w].failedCount = IF ok THEN @ ELSE @ + 1]
  /\ UNCHANGED <<args, skipDirectories, pc, stack,
                 returned, pools, dstDirs, run, preExisting, submitted,
                 errors>>

\* FileCopyWorker.run, lines 61-68: shutil.copy, which may fail
WorkerCopy(p, w) ==
  /\ workers[p][w].state = "copy"
  /\ LET src == Val(Val(workers[p][w].msg).src)
         dst == Val(Val(workers[p][w].msg).dst)
     IN  \E ok \in {b \in BOOLEAN : b => CanCopyTo(dst)} :
           /\ dstFiles' = IF ok THEN Copied(src, dst) ELSE dstFiles
           /\ copyLog' = copyLog \cup {[src |-> src, dst |-> dst, ok |-> ok]}
           /\ workers' = [workers EXCEPT
                 ![p][w].state = "get", ![p][w].msg = None,
                 ![p][w].failedCount = IF ok THEN @ ELSE @ + 1]
  /\ UNCHANGED <<args, skipDirectories, pc, stack,
                 returned, pools, dstDirs, run, preExisting, submitted,
                 errors>>

\* FileCopyWorker.run, lines 63-65: a KeyboardInterrupt arrives in the
\* worker process during shutil.copy; the worker leaves its loop and ends,
\* with what is on its queue left there.  The interrupted copy may have
\* created the destination file or not.
WorkerInterrupted(p, w) ==
  /\ workers[p][w].state = "copy"
  /\ LET src == Val(Val(workers[p][w].msg).src)
         dst == Val(Val(workers[p][w].msg).dst)
     IN  \E made \in {b \in BOOLEAN : b => CanCopyTo(dst)} :
           /\ dstFiles' = IF made THEN Copied(src, dst) ELSE dstFiles
           /\ copyLog' = copyLog \cup {[src |-> src, dst |-> dst, ok |-> FALSE]}
           /\ workers' = [workers EXCEPT
                 ![p][w].state = "stopped", ![p][w].msg = None]
  /\ UNCHANGED <<args, skipDirectories, pc, stack,
                 returned, pools, dstDirs, run, preExisting, submitted,
                 errors>>

\* the process of worker w of pool p has ended: join() returns for it
Ended(p, w) == workers[p][w].state \in {"exited", "stopped"}

\* FileCopyWorkerPool.waitForWorkersToClose of pool p, once every join()
\* has returned: the sum of the pool object's failedCount attributes
waitForWorkersToClose(p) ==
  SumSeq([k \in 1..pools[p].numWorkers |-> pools[p].failedCount[k - 1]])

----------------------------------------------------------------------------
(* restoreFolder                                                           *)

\* The locals of one restoreFolder call.  workerPool: None or the number of
\* the pool.  next: the position in backupPath.iterdir() of the child the
\* loop handles next.  raised: the exception that ended the try block ("" 
\* while none has).  joined: lines 303-305 are done.  subKillFlag: the
\* local of that name, "unbound" until line 250 or line 280 has assigned it.
NewFrame(backupPath, restorePath, workerPool, closeWorkersWhenDone) ==
  [backupPath |-> backupPath, restorePath |-> restorePath, next |-> 1,
   folderCount |-> 0, fileCount |-> 0, versionCount |-> 0,
   deletedFileCount |-> 0, deletedFolderCount |-> 0, failedCount |-> 0,
   failList |-> <<>>, killFlag |-> FALSE, raised |-> "",
   workerPool |-> workerPool, closeWorkersWhenDone |-> closeWorkersWhenDone,
   joined |-> FALSE, subKillFlag |-> "unbound"]

\* Lines 214-235 of a call restoreFolder(backupPath, restorePath,
\* numWorkers=n, workerPool=workerPool): the new locals, and the pool that
\* the call creates when it is given none and n is not None (0).
Enter(backupPath, restorePath, n, workerPool) ==
  LET create == IsNone(workerPool) /\ n # 0
      p == Len(pools) + 1
  IN  [frame |-> NewFrame(backupPath, restorePath,
                          IF create THEN Some(p) ELSE workerPool, create),
       pools |-> IF create THEN Append(pools, NewPool(n)) ELSE pools,
       workers |-> IF create
                   THEN Append(workers, [w \in 0..(n - 1) |-> NewWorker])
                   ELSE workers]

top == stack[Len(stack)]

\* the loop of the innermost call has a child left to handle
Iterating ==
  /\ pc = "walk"
  /\ top.raised = ""
  /\ top.next <= Len(NodeAt(backup, top.backupPath).sub)

\* the loop of the innermost call is over, or an exception has ended its try
LoopOver ==
  /\ pc = "walk"
  /\ top.raised = ""
  /\ top.next > Len(NodeAt(backup, top.backupPath).sub)

\* the innermost call is at its return statement
AtReturn ==
  /\ pc = "walk"
  /\ \/ top.raised # ""
     \/ LoopOver /\ (top.closeWorkersWhenDone => top.joined)

subpath == Append(top.backupPath, top.next)
subnode == NodeAt(backup, subpath)

\* the except clauses of lines 306-313
Raise(f, exc) ==
  [f EXCEPT !.raised = exc,
            !.killFlag = IF exc = "KeyboardInterrupt" THEN TRUE ELSE @]

\* errors once the try block of the call with locals f may have ended
Logged(f) ==
  IF f.raised # "" THEN errors \cup {[at |-> f.backupPath, exc |-> f.raised]}
  ELSE errors

\* an entry of failList
Failure(path, file) == [path |-> path, file |-> file]

\* the tuple of line 315
ReturnValue(f) ==
  [folderCount |-> f.folderCount, fileCount |-> f.fileCount,
   versionCount |-> f.versionCount, deletedFileCount |-> f.deletedFileCount,
   deletedFolderCount |-> f.deletedFolderCount, failedCount |-> f.failedCount,
   failList |-> f.failList, killFlag |-> f.killFlag]

\* The call of restoreFolder by the main program (line 336 passes its
\* numWorkers), lines 214-238.
CallRestoreFolder ==
  /\ pc = "start"
  /\ pc' = "walk"
  /\ LET e == Enter(<<>>, <<>>, numWorkers, None) IN
       /\ stack' = <<e.frame>>
       /\ pools' = e.pools
       /\ workers' = e.workers
  /\ preExisting' = dstFiles
  /\ copyLog' = {}
  /\ submitted' = <<>>
  /\ errors' = {}
  /\ UNCHANGED <<args, skipDirectories, returned,
                 dstDirs, dstFiles, run>>

\* lines 240-244: the path of the child is too long
PathTooLong ==
  /\ Iterating
  /\ PathLen(subpath) > MaxPathLen
  /\ stack' = [stack EXCEPT ![Len(stack)] =
                 [top EXCEPT !.failedCount = @ + 1,
                             !.failList = Append(@, Failure(subpath, None)),
                             !.next = @ + 1]]
  /\ UNCHANGED <<args, skipDirectories, pc,
                 returned, pools, workers, dstDirs, dstFiles, run,
                 preExisting, copyLog, submitted, errors>>

\* restoreLatestVersion as called at line 250, and lines 251-262: what the
\* handling of version folder subpath does to the locals f of the call, the
\* job it puts on a worker's queue (put) and the copy it performs itself
\* (copy).  With restorePath missing the synchronous shutil.copy has no
\* directory to write to and fails.
VersionOutcome(f) ==
  LET r == getLatestVersionPath(subnode)
      rst == restore(r.deletionDate, restoreDeletionsAfterDate)
      latest == r.latestVersionPath
      src == [folder |-> subpath, date |-> Val(latest).date, name |-> Val(latest).name]
      dst == [dir |-> f.restorePath, name |-> Val(latest).name]
      quiet == [frame |-> f, put |-> None, copy |-> None]
      counted(failed) ==
        [f EXCEPT !.deletedFileCount = IF rst THEN @ ELSE @ + 1,
                  !.failedCount = IF failed THEN @ + 1 ELSE @,
                  !.failList = IF failed THEN Append(@, Failure(subpath, latest)) ELSE @,
                  !.versionCount = @ + r.versionCount,
                  !.fileCount = @ + 1,
                  !.subKillFlag = "False",
                  !.next = @ + 1]
  IN
  IF r.exc = "FileNotFoundError"
  THEN [quiet EXCEPT !.frame = [f EXCEPT !.failedCount = @ + 1, !.next = @ + 1]]
  ELSE IF r.exc # ""
  THEN [quiet EXCEPT !.frame = Raise(f, r.exc)]
  ELSE IF ~rst
  THEN [quiet EXCEPT !.frame = counted(FALSE)]
  ELSE IF ~IsNone(f.workerPool)
  THEN IF IsNone(latest)
       THEN [quiet EXCEPT !.frame = Raise(f, "AttributeError")]
       ELSE IF pools[Val(f.workerPool)].isClosed
       THEN [quiet EXCEPT !.frame = Raise(f, "IOError")]
       ELSE [frame |-> counted(FALSE), put |-> Some(Job(src, dst)), copy |-> None]
  ELSE IF f.restorePath \in dstDirs
  THEN [quiet EXCEPT !.frame = counted(FALSE)]
  ELSE IF IsNone(latest)
  THEN [quiet EXCEPT !.frame = Raise(f, "AttributeError")]
  ELSE IF dryRun
  THEN [quiet EXCEPT !.frame = counted(FALSE)]
  ELSE [frame |-> counted(~CanCopyTo(dst)), put |-> None,
        copy |-> Some([src |-> src, dst |-> dst, ok |-> CanCopyTo(dst)])]

\* lines 245-262: the child is a version folder
RestoreVersionFolder ==
  /\ Iterating
  /\ PathLen(subpath) <= MaxPathLen
  /\ is_dir(subnode)
  /\ isVersionFolder(subnode)
  /\ LET o == VersionOutcome(top) IN
       /\ stack' = [stack EXCEPT ![Len(stack)] = o.frame]
       /\ errors' = Logged(o.frame)
       /\ IF IsNone(o.put)
          THEN UNCHANGED <<pools, workers, submitted>>
          ELSE LET p == Val(top.workerPool)
                   w == pools[p].workerIndex
               IN  /\ CanPut(p, w)
                   /\ workers' = Put(p, w, Val(o.put))
                   /\ submitted' = Append(submitted,
                         [pool |-> p, worker |-> w, job |-> Val(o.put)])
                   /\ pools' = [pools EXCEPT
                         ![p].workerIndex = NextWorkerIndex(p)]
       /\ IF IsNone(o.copy)
          THEN UNCHANGED <<dstFiles, copyLog>>
          ELSE /\ dstFiles' = IF Val(o.copy).ok
                              THEN Copied(Val(o.copy).src, Val(o.copy).dst)
                              ELSE dstFiles
               /\ copyLog' = copyLog \cup {Val(o.copy)}
  /\ UNCHANGED <<args, skipDirectories, pc,
                 returned, dstDirs, run, preExisting>>

\* lines 263-280 without line 266: the entry is left in the list
VisitDirectoryKeepingEntry ==
  /\ Iterating
  /\ PathLen(subpath) <= MaxPathLen
  /\ is_dir(subnode)
  /\ ~isVersionFolder(subnode)
  /\ IF subpath \in skipDirectories
     THEN /\ stack' = [stack EXCEPT ![Len(stack)].next = @ + 1]
          /\ UNCHANGED <<skipDirectories, pools, workers, dstDirs, errors>>
     ELSE LET nextRestorePath == Append(top.restorePath, top.next)
              counted == [top EXCEPT !.folderCount = @ + 1]
              e == Enter(subpath, nextRestorePath, DefaultNumWorkers, top.workerPool)
          IN  IF ~dryRun /\ top.restorePath \notin dstDirs
              THEN /\ stack' = [stack EXCEPT ![Len(stack)] =
                                  Raise(counted, "FileNotFoundError")]
                   /\ errors' = Logged(Raise(counted, "FileNotFoundError"))
                   /\ UNCHANGED <<skipDirectories, pools, workers, dstDirs>>
              ELSE /\ stack' = Append([stack EXCEPT ![Len(stack)] = counted],
                                      e.frame)
                   /\ pools' = e.pools
                   /\ workers' = e.workers
                   /\ dstDirs' = IF dryRun THEN dstDirs
                                 ELSE dstDirs \cup {nextRestorePath}
                   /\ UNCHANGED <<skipDirectories, errors>>
  /\ UNCHANGED <<args, pc, returned, dstFiles, run,
                 preExisting, copyLog, submitted>>

\* lines 263-280: the child is a plain directory; it is skipped at the
\* user's request, or mirrored (unless dryRun) and restoreFolder is called
\* for it.  The call passes workerPool and leaves numWorkers to its default.
VisitDirectory ==
  /\ Iterating
  /\ PathLen(subpath) <= MaxPathLen
  /\ is_dir(subnode)
  /\ ~isVersionFolder(subnode)
  /\ IF subpath \in skipDirectories
     THEN /\ skipDirectories' = skipDirectories \ {subpath}
          /\ stack' = [stack EXCEPT ![Len(stack)].next = @ + 1]
          /\ UNCHANGED <<pools, workers, dstDirs, errors>>
     ELSE LET nextRestorePath == Append(top.restorePath, top.next)
              counted == [top EXCEPT !.folderCount = @ + 1]
              e == Enter(subpath, nextRestorePath, DefaultNumWorkers, top.workerPool)
          IN  IF ~dryRun /\ top.restorePath \notin dstDirs
              THEN \* mkdir finds no parent directory
                   /\ stack' = [stack EXCEPT ![Len(stack)] =
                                  Raise(counted, "FileNotFoundError")]
                   /\ errors' = Logged(Raise(counted, "FileNotFoundError"))
                   /\ UNCHANGED <<skipDirectories, pools, workers, dstDirs>>
              ELSE /\ stack' = Append([stack EXCEPT ![Len(stack)] = counted],
                                      e.frame)
                   /\ pools' = e.pools
                   /\ workers' = e.workers
                   /\ dstDirs' = IF dryRun THEN dstDirs
                                 ELSE dstDirs \cup {nextRestorePath}
                   /\ UNCHANGED <<skipDirectories, errors>>
  /\ UNCHANGED <<args, pc, returned, dstFiles, run,
                 preExisting, copyLog, submitted>>

\* lines 245 and 299-300: the child is no directory, or it was one and is
\* gone when is_dir() is called, which then answers False
PlainFileFound ==
  /\ Iterating
  /\ PathLen(subpath) <= MaxPathLen
  /\ (~is_dir(subnode) \/ subnode.gone)
  /\ stack' = [stack EXCEPT ![Len(stack)] = Raise(top, "IOError")]
  /\ errors' = Logged(Raise(top, "IOError"))
  /\ UNCHANGED <<args, skipDirectories, pc,
                 returned, pools, workers, dstDirs, dstFiles, run,
                 preExisting, copyLog, submitted>>

\* line 303, closePool: one closeWorker of its loop, which puts EXIT on the
\* queue of the next worker; isClosed is set after the last
closeWorker ==
  /\ LoopOver
  /\ top.closeWorkersWhenDone
  /\ LET p == Val(top.workerPool)
         k == pools[p].closing
     IN  /\ ~pools[p].isClosed
         /\ CanPut(p, k)
         /\ workers' = Put(p, k, EXIT)
         /\ pools' = [pools EXCEPT ![p].closing = k + 1,
                                   ![p].isClosed = (k + 1 = pools[p].numWorkers)]
  /\ UNCHANGED <<args, skipDirectories, pc, stack,
                 returned, dstDirs, dstFiles, run, preExisting, copyLog,
                 submitted, errors>>

\* lines 304-305: waitForWorkersToClose returns once every worker process
\* has ended, and its value is added to failedCount
JoinWorkers ==
  /\ LoopOver
  /\ top.closeWorkersWhenDone
  /\ ~top.joined
  /\ LET p == Val(top.workerPool) IN
       /\ pools[p].isClosed
       /\ \A w \in DOMAIN workers[p] : Ended(p, w)
       /\ stack' = [stack EXCEPT ![Len(stack)] =
                      [top EXCEPT !.failedCount = @ + waitForWorkersToClose(p),
                                  !.joined = TRUE]]
  /\ UNCHANGED <<args, skipDirectories, pc,
                 returned, pools, workers, dstDirs, dstFiles, run,
                 preExisting, copyLog, submitted, errors>>

\* lines 280-298 with the file count of the child assigned, not added
AfterRecursionAssigning(c, sub, nextRestorePath) ==
  LET prune == deleteEmptyDirectories /\ sub.fileCount = sub.deletedFileCount
      merged(pruned) ==
        [c EXCEPT !.failedCount = sub.failedCount,
                  !.subKillFlag = IF sub.killFlag THEN "True" ELSE "False",
                  !.deletedFolderCount = @ + pruned + sub.deletedFolderCount,
                  !.folderCount = @ + sub.folderCount,
                  !.fileCount = sub.fileCount,
                  !.versionCount = @ + sub.versionCount,
                  !.deletedFileCount = @ + sub.deletedFileCount,
                  !.failList = @ \o sub.failList,
                  !.next = @ + 1]
  IN  IF ~prune \/ dryRun
      THEN [frame |-> merged(IF prune THEN 1 ELSE 0), rmdir |-> FALSE]
      ELSE IF CanRmdir(nextRestorePath)
      THEN [frame |-> merged(1), rmdir |-> TRUE]
      ELSE [frame |-> Raise(c, "OSError"), rmdir |-> FALSE]

\* Lines 280-298 in the caller c, once the call for its child has returned
\* sub from the call whose restorePath is nextRestorePath: [frame, rmdir],
\* the caller's locals and whether nextRestorePath is removed.
AfterRecursion(c, sub, nextRestorePath) ==
  LET c1 == [c EXCEPT !.failedCount = sub.failedCount,
                      !.subKillFlag = IF sub.killFlag THEN "True" ELSE "False"]
      prune == deleteEmptyDirectories /\ sub.fileCount = sub.deletedFileCount
      merged(pruned) ==
        [c1 EXCEPT !.deletedFolderCount = @ + pruned + sub.deletedFolderCount,
                   !.folderCount = @ + sub.folderCount,
                   !.fileCount = @ + sub.fileCount,
                   !.versionCount = @ + sub.versionCount,
                   !.deletedFileCount = @ + sub.deletedFileCount,
                   !.failList = @ \o sub.failList,
                   !.next = @ + 1]
  IN  IF sub.killFlag
      THEN [frame |-> Raise(c1, "KeyboardInterrupt"), rmdir |-> FALSE]
      ELSE IF ~prune
      THEN [frame |-> merged(0), rmdir |-> FALSE]
      ELSE IF dryRun
      THEN [frame |-> merged(1), rmdir |-> FALSE]
      ELSE IF CanRmdir(nextRestorePath)
      THEN [frame |-> merged(1), rmdir |-> TRUE]
      ELSE [frame |-> Raise(c1, "OSError"), rmdir |-> FALSE]

\* line 315 of a recursive call, and lines 280-298 of its caller
ReturnToCaller ==
  /\ AtReturn
  /\ Len(stack) >= 2
  /\ LET a == AfterRecursion(stack[Len(stack) - 1], ReturnValue(top),
                             top.restorePath)
     IN  /\ stack' = [SubSeq(stack, 1, Len(stack) - 1)
                        EXCEPT ![Len(stack) - 1] = a.frame]
         /\ dstDirs' = IF a.rmdir THEN dstDirs \ {top.restorePath} ELSE dstDirs
         /\ errors' = Logged(a.frame)
  /\ UNCHANGED <<args, skipDirectories, pc,
                 returned, pools, workers, dstFiles, run, preExisting,
                 copyLog, submitted>>

\* line 315 of the call by the main program
ReturnToMain ==
  /\ AtReturn
  /\ Len(stack) = 1
  /\ returned' = Some(ReturnValue(top))
  /\ stack' = <<>>
  /\ pc' = "done"
  /\ UNCHANGED <<args, skipDirectories, pools,
                 workers, dstDirs, dstFiles, run, preExisting, copyLog,
                 submitted, errors>>

\* The main program ends (its daemon workers end with it) and is run again
\* on the same backup and destination, with the same or another cutoff.
Rerun ==
  /\ pc = "done"
  /\ run < MaxRuns
  /\ pc' = "start"
  /\ run' = run + 1
  /\ returned' = None
  /\ pools' = <<>>
  /\ workers' = <<>>
  /\ restoreDeletionsAfterDate' \in {None, Some(<<2, 0>>)}
  /\ UNCHANGED <<backup, numWorkers, deleteEmptyDirectories, dryRun,
                 skipDirectories, stack, dstDirs, dstFiles, preExisting,
                 copyLog, submitted, errors>>

----------------------------------------------------------------------------
(* The inputs                                                              *)

\* version date folder names, and cutoff dates around them
Date19 == <<1, 9>>
Date20 == <<2, 0>>
Date21 == <<2, 1>>
Date30 == <<3, 0>>
DateNames == {Date19, Date20, Date21, Date30}

\* a live file: one version
LiveFolder == VersionFolder(<<[name |-> Date20, files |-> <<"f">>]>>)
\* a deleted file: one version and a later deletion marker
DeletedFolder ==
  VersionFolder(<<[name |-> Date19, files |-> <<"g">>],
                  [name |-> Date21, files |-> <<deletedFileName>>]>>)
\* a version folder whose name makes its path too long
LongFolder == [LiveFolder EXCEPT !.long = TRUE]
\* a version folder removed after its parent was listed
GoneFolder == [LiveFolder EXCEPT !.gone = TRUE]

Leaves == {LiveFolder, DeletedFolder, LongFolder, PlainFile}

\* the forests (sequences of trees) of n nodes and the trees of n nodes
RECURSIVE Forests(_)
RECURSIVE Trees(_)
Forests(n) ==
  IF n = 0 THEN {<<>>}
  ELSE UNION {{<<t>> \o f : t \in Trees(k), f \in Forests(n - k)} : k \in 1..n}
Trees(n) ==
  (IF n = 1 THEN Leaves ELSE {}) \cup {Dir(f) : f \in Forests(n - 1)}

TreesUpTo(m) == UNION {{Dir(f) : f \in Forests(n)} : n \in 0..m}
BackupTrees == TreesUpTo(MaxNodes)

\* every version folder of at most MaxVersions version date folders, each
\* holding a file, a deletion marker, nothing or two files
FileLists == {<<"f">>, <<deletedFileName>>, <<>>, <<"f", "g">>}
VersionDateFolders == [name : DateNames, files : FileLists]
DistinctNames(s) == \A i, j \in 1..Len(s) : i # j => s[i].name # s[j].name
VersionFolders ==
  UNION {{VersionFolder(s) : s \in {t \in [1..n -> VersionDateFolders] : DistinctNames(t)}}
           : n \in 0..MaxVersions}

\* a backup of one version folder followed by a live one
VersionTrees == {Dir(<<v, LiveFolder>>) : v \in VersionFolders \cup {GoneFolder}}

InitWithSkips(trees, cutoffs, counts, dryRuns, prunes, destinations, skips) ==
  /\ backup \in trees
  /\ restoreDeletionsAfterDate \in cutoffs
  /\ numWorkers \in counts
  /\ dryRun \in dryRuns
  /\ deleteEmptyDirectories \in prunes
  /\ dstDirs \in destinations
  /\ skipDirectories \in skips
  /\ pc = "start"
  /\ stack = <<>>
  /\ returned = None
  /\ pools = <<>>
  /\ workers = <<>>
  /\ dstFiles = {}
  /\ run = 1
  /\ preExisting = {}
  /\ copyLog = {}
  /\ submitted = <<>>
  /\ errors = {}

\* the main program is given no file of directories to skip
InitWith(trees, cutoffs, counts, dryRuns, prunes, destinations) ==
  InitWithSkips(trees, cutoffs, counts, dryRuns, prunes, destinations, {{}})

\* restorePath exists and is empty
Fresh == {<<>>}

Init ==
  InitWith(BackupTrees, {None, Some(Date20)}, {0, MaxWorkers}, BOOLEAN, BOOLEAN,
           {Fresh})

Worker == \E p \in DOMAIN workers : \E w \in DOMAIN workers[p] :
            WorkerGet(p, w) \/ WorkerCopy(p, w)

Next ==
  \/ CallRestoreFolder
  \/ PathTooLong
  \/ RestoreVersionFolder
  \/ VisitDirectory
  \/ PlainFileFound
  \/ closeWorker
  \/ JoinWorkers
  \/ ReturnToCaller
  \/ ReturnToMain
  \/ Worker

Spec == Init /\ [][Next]_vars

\* One version folder of any shape, followed by a live one.
VersionInit ==
  InitWith(VersionTrees, {None, Some(Date20)}, {0, 1},
           {FALSE}, {TRUE}, {Fresh})

VersionNext ==
  \/ CallRestoreFolder
  \/ RestoreVersionFolder
  \/ PlainFileFound
  \/ closeWorker
  \/ JoinWorkers
  \/ ReturnToMain
  \/ Worker

VersionSpec == VersionInit /\ [][VersionNext]_vars

\* The program run again on the destination of its earlier run; the
\* restore path exists or not.
RerunInit ==
  InitWith(TreesUpTo(MaxRerunNodes), {None, Some(Date20)}, {0, MaxWorkers},
           BOOLEAN, BOOLEAN, {Fresh, {}})

RerunNext == Next \/ Rerun

RerunSpec == RerunInit /\ [][RerunNext]_vars

\* One directory of version folders, live or deleted, restored through a
\* pool of one or several workers.
PoolTrees ==
  UNION {{Dir(f) : f \in [1..n -> {LiveFolder, DeletedFolder}]} : n \in 0..MaxPoolJobs}

PoolInit ==
  InitWith(PoolTrees, {None, Some(Date20)}, 1..MaxPoolWorkers, BOOLEAN, {TRUE},
           {Fresh})

PoolNext ==
  \/ CallRestoreFolder
  \/ RestoreVersionFolder
  \/ closeWorker
  \/ JoinWorkers
  \/ ReturnToMain
  \/ Worker

PoolSpec == PoolInit /\ [][PoolNext]_vars

\* One directory of more live version folders than a queue holds, restored
\* in a dry run through a pool of one worker.
FullQueueTree == Dir([i \in 1..(QueueMaxSize + MaxExtraJobs) |-> LiveFolder])

FullQueueInit == InitWith({FullQueueTree}, {None}, {1}, {TRUE}, {TRUE}, {Fresh})

FullQueueSpec == FullQueueInit /\ [][PoolNext]_vars

\* a step of worker process w of pool p, when there is such a process
WorkerStep(p, w) ==
  /\ p \in DOMAIN workers
  /\ w \in DOMAIN workers[p]
  /\ (WorkerGet(p, w) \/ WorkerCopy(p, w))

\* Every worker process is scheduled and its shutil.copy returns; the main
\* process goes on in closePool and comes back from join() once the
\* workers have ended.
PoolFairness ==
  /\ \A w \in 0..(MaxPoolWorkers - 1) : WF_vars(WorkerStep(1, w))
  /\ WF_vars(closeWorker)
  /\ WF_vars(JoinWorkers)

PoolFairSpec == PoolInit /\ [][PoolNext]_vars /\ PoolFairness

\* One directory of more live version folders than a queue holds, restored
\* through a pool of one worker, which may be interrupted during a copy.
StopInit ==
  InitWith({FullQueueTree}, {None}, {1}, {FALSE}, {TRUE}, {Fresh})

WorkerStops == \E p \in DOMAIN workers : \E w \in DOMAIN workers[p] :
                 WorkerInterrupted(p, w)

StopNext == PoolNext \/ WorkerStops

StopSpec == StopInit /\ [][StopNext]_vars

\* a KeyboardInterrupt has been raised in the run
Interrupted == \E e \in errors : e.exc = "KeyboardInterrupt"

\* A KeyboardInterrupt is raised in the main process while the innermost
\* call is in its try block, elsewhere than in a synchronous copy: in the
\* listing, the resolver, mkdir, rmdir, a put on a full queue or a join.
\* Lines 306-309 handle it.  Line 307 reads subKillFlag: while it is
\* unbound this raises UnboundLocalError out of the call, to the bare
\* except of its caller (lines 310-313), or out of the top-level call to
\* the main program, which ends with a traceback.
Interrupt ==
  /\ pc = "walk"
  /\ top.raised = ""
  /\ ~top.joined
  /\ ~Interrupted
  /\ LET here == [at |-> top.backupPath, exc |-> "KeyboardInterrupt"] IN
     IF top.subKillFlag # "unbound"
     THEN /\ stack' = [stack EXCEPT ![Len(stack)] =
                         Raise(top, "KeyboardInterrupt")]
          /\ errors' = errors \cup {here}
          /\ pc' = pc
     ELSE IF Len(stack) = 1
     THEN /\ stack' = <<>>
          /\ errors' = errors \cup
                         {here, [at |-> top.backupPath, exc |-> "UnboundLocalError"]}
          /\ pc' = "crashed"
     ELSE LET caller == Raise(stack[Len(stack) - 1], "UnboundLocalError") IN
          /\ stack' = [SubSeq(stack, 1, Len(stack) - 1)
                         EXCEPT ![Len(stack) - 1] = caller]
          /\ errors' = errors \cup
                         {here, [at |-> caller.backupPath, exc |-> caller.raised]}
          /\ pc' = pc
  /\ UNCHANGED <<args, skipDirectories, returned, pools, workers, dstDirs,
                 dstFiles, run, preExisting, copyLog, submitted>>

\* A KeyboardInterrupt is raised in the shutil.copy of line 146: lines
\* 147-150 catch it, restoreLatestVersion returns failed and killFlag True,
\* lines 251-257 count the version folder and line 259 raises.
InterruptCopy ==
  /\ Iterating
  /\ PathLen(subpath) <= MaxPathLen
  /\ is_dir(subnode)
  /\ isVersionFolder(subnode)
  /\ ~Interrupted
  /\ LET o == VersionOutcome(top) IN
       /\ ~IsNone(o.copy)
       /\ LET r == getLatestVersionPath(subnode)
              f == [top EXCEPT
                      !.failedCount = @ + 1,
                      !.failList = Append(@, Failure(subpath, r.latestVersionPath)),
                      !.versionCount = @ + r.versionCount,
                      !.fileCount = @ + 1,
                      !.subKillFlag = "True"]
          IN  /\ stack' = [stack EXCEPT ![Len(stack)] =
                             Raise(f, "KeyboardInterrupt")]
              /\ errors' = Logged(Raise(f, "KeyboardInterrupt"))
       /\ copyLog' = copyLog \cup {[Val(o.copy) EXCEPT !.ok = FALSE]}
  /\ UNCHANGED <<args, skipDirectories, pc, returned, pools, workers, dstDirs,
                 dstFiles, run, preExisting, submitted>>

\* The walk of a backup tree, interrupted at most once, into a restore
\* path that exists or not.
InterruptInit ==
  InitWith(TreesUpTo(MaxInterruptNodes), {None}, {0, MaxWorkers}, {FALSE},
           BOOLEAN, {Fresh, {}})

InterruptNext == Next \/ Interrupt \/ InterruptCopy

InterruptSpec == InterruptInit /\ [][InterruptNext]_vars

\* The paths of the plain directories of the backup, its root apart, and a
\* path that is not in the backup.
RECURSIVE DirectoriesBelow(_, _)
DirectoriesBelow(node, path) ==
  UNION {{Append(path, i)} \cup DirectoriesBelow(node.sub[i], Append(path, i)) :
           i \in {j \in 1..Len(node.sub) : node.sub[j].kind = "dir"}}

NotInBackup == <<MaxSkipNodes + 1>>

\* The main program is given a file of directories to skip: any of the
\* plain directories of the backup, and a path that the walk never meets.
SkipInit ==
  InitWithSkips(TreesUpTo(MaxSkipNodes), {None}, {MaxWorkers}, {FALSE},
                BOOLEAN, {Fresh},
                SUBSET (DirectoriesBelow(backup, <<>>) \cup {NotInBackup}))

SkipSpec == SkipInit /\ [][Next]_vars

----------------------------------------------------------------------------
(* What the claims speak of, stated without the program's operators        *)

\* the paths of the backup tree, and those of its version folders
RECURSIVE PathsBelow(_, _)
PathsBelow(node, path) ==
  {path} \cup
  (IF node.kind = "dir"
   THEN UNION {PathsBelow(node.sub[i], Append(path, i)) : i \in 1..Len(node.sub)}
   ELSE {})

VersionFolderPaths ==
  {p \in PathsBelow(backup, <<>>) : NodeAt(backup, p).kind = "vf"}

\* the time a version date folder name stands for
RECURSIVE DateValue(_)
DateValue(name) ==
  IF name = <<>> THEN 0
  ELSE 10 * DateValue(SubSeq(name, 1, Len(name) - 1)) + name[Len(name)]

\* the data model: every version date folder holds exactly one file
WellFormed(v) == \A i \in 1..Len(v.sub) : Len(v.sub[i].files) = 1
IsMarker(e) == e.files = <<deletedFileName>>
Markers(v) == {e \in Range(v.sub) : deletedFileName \in Range(e.files)}
Live(v) == {e \in Range(v.sub) : e.files # <<>> /\ ~IsMarker(e)}
NewestOf(entries) ==
  CHOOSE e \in entries : \A e2 \in entries : DateValue(e2.name) <= DateValue(e.name)

\* the version folder at p is there, is read, and its newest version date
\* folder is a deletion marker
CurrentlyDeleted(p) ==
  LET v == NodeAt(backup, p) IN
  /\ ~v.gone
  /\ PathLen(p) <= MaxPathLen
  /\ WellFormed(v)
  /\ v.sub # <<>>
  /\ IsMarker(NewestOf(Range(v.sub)))

\* the step of the innermost call that handles its child subpath
HandlesChild == Iterating /\ stack' # stack

\* the jobs put on queues and the copies made for version folder p
JobsFor(p) == {i \in 1..Len(submitted) : Val(submitted[i].job.src).folder = p}
CopiesFor(p) == {c \in copyLog : c.src.folder = p}

----------------------------------------------------------------------------
(* C2 *)

\* C2: for every version folder with at least one version date folder, one
\* file in each and no deletion marker among them, the file that
\* getLatestVersionPath returns is the file of the version date folder with
\* the greatest timestamp, the deletion date is None and the version count
\* is the number of version date folders, in whatever order they are
\* listed; the job submitted for the folder copies that file.
C2_NewestVersionReturned ==
  \A p \in VersionFolderPaths :
    LET v == NodeAt(backup, p)
        r == getLatestVersionPath(v)
        newest == NewestOf(Range(v.sub))
    IN  (~v.gone /\ v.sub # <<>> /\ WellFormed(v) /\ Markers(v) = {})
        => /\ r.exc = ""
           /\ ~IsNone(r.latestVersionPath)
           /\ Val(r.latestVersionPath).date = newest.name
           /\ Val(r.latestVersionPath).name = newest.files[1]
           /\ IsNone(r.deletionDate)
           /\ r.versionCount = Len(v.sub)
           /\ \A i \in JobsFor(p) :
                /\ Val(submitted[i].job.src).date = newest.name
                /\ Val(submitted[i].job.src).name = newest.files[1]

\* a folder of two live versions listed oldest first has been handled and
\* its job submitted
C2_Witness ==
  /\ pc = "done"
  /\ \E p \in VersionFolderPaths :
       LET v == NodeAt(backup, p) IN
       /\ Len(v.sub) >= 2
       /\ Markers(v) = {}
       /\ WellFormed(v)
       /\ DateValue(v.sub[1].name) < DateValue(v.sub[2].name)
       /\ JobsFor(p) # {}

----------------------------------------------------------------------------
(* C3 *)

C3_Deleted(p) ==
  /\ p \in VersionFolderPaths
  /\ CurrentlyDeleted(p)
  /\ IsNone(restoreDeletionsAfterDate)

C3_NothingCopied ==
  \A p \in VersionFolderPaths :
    C3_Deleted(p) => JobsFor(p) = {} /\ CopiesFor(p) = {}

C3_CountedOnce ==
  (HandlesChild /\ C3_Deleted(subpath))
  => /\ top'.deletedFileCount = top.deletedFileCount + 1
     /\ top'.failedCount = top.failedCount
     /\ UNCHANGED <<submitted, copyLog, dstFiles, workers>>

\* C3: for every version folder whose newest version date folder is a
\* deletion marker, when restoreDeletionsAfterDate is None, no job is ever
\* put on a queue and no copy ever made for the folder, and the step of
\* restoreFolder that handles it adds exactly one to deletedFileCount and
\* leaves the queues and the destination as they were.
C3_DeletedSkippedAndCounted ==
  [] C3_NothingCopied /\ [][C3_CountedOnce]_vars

\* a run with a pool has ended that met such a folder and counted it
C3_Witness ==
  /\ pc = "done"
  /\ numWorkers # 0
  /\ \E p \in VersionFolderPaths : C3_Deleted(p)
  /\ Val(returned).deletedFileCount = 1
  /\ Val(returned).fileCount = 2

----------------------------------------------------------------------------
(* C4 *)

C4_DeletedWithCutoff(p) ==
  /\ p \in VersionFolderPaths
  /\ CurrentlyDeleted(p)
  /\ Live(NodeAt(backup, p)) # {}
  /\ ~IsNone(restoreDeletionsAfterDate)
  /\ \A e \in Range(NodeAt(backup, p).sub) :
       Len(e.name) = Len(Val(restoreDeletionsAfterDate))

\* the deletion timestamp that the resolver records for the folder at p
RecordedDeletion(p) == Val(getLatestVersionPath(NodeAt(backup, p)).deletionDate)

C4_Decision ==
  (HandlesChild /\ C4_DeletedWithCutoff(subpath))
  => LET live == NewestOf(Live(subnode))
         src == [folder |-> subpath, date |-> live.name, name |-> live.files[1]]
         dst == [dir |-> top.restorePath, name |-> live.files[1]]
     IN  IF DateValue(RecordedDeletion(subpath))
              > DateValue(Val(restoreDeletionsAfterDate))
         THEN /\ top'.deletedFileCount = top.deletedFileCount
              /\ IF ~IsNone(top.workerPool)
                 THEN /\ Len(submitted') = Len(submitted) + 1
                      /\ submitted'[Len(submitted')].job = Job(src, dst)
                 ELSE \E f \in dstFiles' : f.dir = dst.dir /\ f.name = dst.name
         ELSE /\ top'.deletedFileCount = top.deletedFileCount + 1
              /\ UNCHANGED <<submitted, copyLog, dstFiles, workers>>

\* C4: for every version folder in which a deletion marker was seen, with
\* a cutoff supplied, the step that handles the folder restores its latest
\* live version (puts the copy of that file on a queue, or with no pool
\* leaves the file in the destination) if the recorded deletion timestamp
\* is strictly later than the cutoff, and otherwise copies nothing and adds
\* one to deletedFileCount.
C4_RestoredIffAfterCutoff == [][C4_Decision]_vars

----------------------------------------------------------------------------
(* C5 *)

\* C5: when restoreFolder comes to a version folder whose newest version
\* date folders are deletion markers, the deletion date that the resolver
\* returns for it is the timestamp of the newest marker.
C5_NewestMarkerRecorded ==
  (Iterating /\ isVersionFolder(subnode) /\ CurrentlyDeleted(subpath))
  => getLatestVersionPath(subnode).deletionDate
       = Some(NewestOf(Markers(subnode)).name)

----------------------------------------------------------------------------
(* C10 *)

\* a version folder with no version date folder, or with a version date
\* folder that holds no file or several
Malformed(p) ==
  LET v == NodeAt(backup, p) IN
  /\ isVersionFolder(v)
  /\ ~v.gone
  /\ PathLen(p) <= MaxPathLen
  /\ (v.sub = <<>> \/ ~WellFormed(v))

C10_Recorded ==
  (HandlesChild /\ Malformed(subpath))
  => /\ top'.failedCount = top.failedCount + 1
     /\ UNCHANGED <<submitted, copyLog>>
     /\ top'.raised = ""
     /\ top'.next = top.next + 1

\* C10: the step of restoreFolder that handles a version folder with no
\* version date folder, or with a version date folder of no file or of
\* several, adds one to failedCount, puts no job on a queue, makes no copy
\* and goes on to the next child of the directory.
C10_MalformedFolderIsAFailure == [][C10_Recorded]_vars

----------------------------------------------------------------------------
(* C7, C8, C9 *)

\* the step is the return of a recursive call to its caller, and not an
\* exception that leaves the call
ReturnsToCaller == AtReturn /\ Len(stack) >= 2 /\ ReturnToCaller

C7_Summed ==
  ReturnsToCaller
  => stack'[Len(stack')].failedCount
       = stack[Len(stack) - 1].failedCount + top.failedCount

\* C7: when a recursive call of restoreFolder returns, the failedCount of
\* its caller becomes the failures the caller has counted so far plus the
\* failedCount that the call returns.
C7_FailedCountIsSummed == [][C7_Summed]_vars

\* the five counters of a report
Counters(r) ==
  [folderCount |-> r.folderCount, fileCount |-> r.fileCount,
   versionCount |-> r.versionCount, deletedFileCount |-> r.deletedFileCount,
   deletedFolderCount |-> r.deletedFolderCount]

Plus(a, b) ==
  [folderCount |-> a.folderCount + b.folderCount,
   fileCount |-> a.fileCount + b.fileCount,
   versionCount |-> a.versionCount + b.versionCount,
   deletedFileCount |-> a.deletedFileCount + b.deletedFileCount,
   deletedFolderCount |-> a.deletedFolderCount + b.deletedFolderCount]

Zero ==
  [folderCount |-> 0, fileCount |-> 0, versionCount |-> 0,
   deletedFileCount |-> 0, deletedFolderCount |-> 0]

\* The totals over the tree below directory p: the contribution of each
\* child from i on (a version folder that is read: one file, its versions,
\* one deleted file when it is not restored; a plain directory: one folder,
\* one pruned folder when pruning removes it) plus the totals below each
\* plain directory.
RECURSIVE TotalsFrom(_, _)
TotalsFrom(p, i) ==
  IF i > Len(NodeAt(backup, p).sub) THEN Zero
  ELSE LET q == Append(p, i)
           n == NodeAt(backup, q)
           own ==
             IF PathLen(q) > MaxPathLen \/ n.gone \/ n.kind = "file" THEN Zero
             ELSE IF n.kind = "vf"
             THEN LET r == getLatestVersionPath(n) IN
                  [Zero EXCEPT
                     !.fileCount = 1,
                     !.versionCount = r.versionCount,
                     !.deletedFileCount =
                        IF restore(r.deletionDate, restoreDeletionsAfterDate)
                        THEN 0 ELSE 1]
             ELSE LET t == TotalsFrom(q, 1) IN
                  Plus(t, [Zero EXCEPT
                     !.folderCount = 1,
                     !.deletedFolderCount =
                        IF deleteEmptyDirectories
                           /\ t.fileCount = t.deletedFileCount
                        THEN 1 ELSE 0])
       IN  Plus(own, TotalsFrom(p, i + 1))

Totals(p) == TotalsFrom(p, 1)

\* C8: while no exception has been raised in the walk, the folder, file,
\* version, deleted-file and pruned-folder counts that a call of
\* restoreFolder is about to return for a directory are the totals over the
\* tree below that directory, and the report of the whole run is the totals
\* over the whole tree.
C8_CountersAreTotals ==
  /\ (AtReturn /\ errors = {} /\ ~top.killFlag)
       => Counters(ReturnValue(top)) = Totals(top.backupPath)
  /\ (pc = "done" /\ errors = {} /\ ~Val(returned).killFlag)
       => Counters(Val(returned)) = Totals(<<>>)

\* a run without error has ended that went into two plain directories, one
\* inside the other, and found a version folder in the inner one
C8_Witness ==
  /\ pc = "done"
  /\ errors = {}
  /\ Val(returned).folderCount >= 2
  /\ Val(returned).fileCount >= 1
  /\ \E p \in VersionFolderPaths : Len(p) = 3

C9_Recorded ==
  (HandlesChild /\ PathLen(subpath) <= MaxPathLen /\ subnode.kind = "file")
  => /\ top'.raised # ""
     /\ \/ top'.failedCount > top.failedCount
        \/ Len(top'.failList) > Len(top.failList)

\* C9: the step of restoreFolder that finds a plain file in its directory
\* ends the walk of the directory and records a failure, in failedCount or
\* in failList.
C9_PlainFileIsAFailure == [][C9_Recorded]_vars

----------------------------------------------------------------------------
(* C1, C6 *)

\* C1: no file that the destination held when a run began is written by a
\* copy of that run, pool or no pool, and every such file is there
\* unchanged; so a second run into the destination of a first copies
\* nothing onto the files of the first and counts no failure for them.
C1_ExistingFilesAreNotWritten ==
  \A f \in preExisting :
    /\ f \in dstFiles
    /\ \A c \in copyLog : ~(c.dst.dir = f.dir /\ c.dst.name = f.name)

\* a second run with a pool has ended: a job for a file that the first run
\* wrote was put on a queue and taken from it, nothing was copied and no
\* failure counted
C1_Witness ==
  /\ pc = "done"
  /\ run = 2
  /\ \E i \in 1..Len(submitted) : \E f \in preExisting :
       /\ Val(submitted[i].job.dst).dir = f.dir
       /\ Val(submitted[i].job.dst).name = f.name
       /\ workers[submitted[i].pool][submitted[i].worker].state = "exited"
  /\ copyLog = {}
  /\ Val(returned).failedCount = 0

C6_Pruned ==
  (ReturnsToCaller /\ deleteEmptyDirectories
     /\ top.fileCount = top.deletedFileCount)
  => /\ top.restorePath \notin dstDirs'
     /\ stack'[Len(stack')].deletedFolderCount
          = stack[Len(stack) - 1].deletedFolderCount + 1 + top.deletedFolderCount

\* the mirrored directories that d lies in, d itself among them
MirroredAbove(d) == {SubSeq(d, 1, k) : k \in 1..Len(d)}

C6_Kept ==
  /\ \A f \in dstFiles : MirroredAbove(f.dir) \subseteq dstDirs
  /\ ~dryRun => \A i \in 1..Len(submitted) :
                  MirroredAbove(Val(submitted[i].job.dst).dir) \subseteq dstDirs

\* C6: with deleteEmptyDirectories, when the call for a plain directory
\* returns a file count equal to its deleted-file count, the mirrored
\* directory is gone after the caller's step and the caller's pruned-folder
\* count has grown by one (plus what the call returns); and a mirrored
\* directory that holds a restored file, or is the target of a submitted
\* copy, is never removed.
C6_PrunedOnceOrKept == [] C6_Kept /\ [][C6_Pruned]_vars

----------------------------------------------------------------------------
(* C13, C14, C15 *)

\* C13: when the top-level call creates a pool, the pool is neither closed
\* nor being closed while a recursive call is active, and once the
\* top-level call has returned the pool is closed and every worker of it
\* has ended.
C13_PoolClosedAndAwaitedOnce ==
  /\ (pc = "walk" /\ numWorkers # 0 /\ Len(stack) >= 2)
       => ~pools[1].isClosed /\ pools[1].closing = 0
  /\ (pc = "done" /\ numWorkers # 0)
       => /\ pools[1].isClosed
          /\ \A w \in DOMAIN workers[1] : workers[1][w].state = "exited"

\* the copies that have failed inside the worker processes of pool p
FailedInWorkers(p) ==
  SumSeq([k \in 1..pools[p].numWorkers |-> workers[p][k - 1].failedCount])

\* lines 304-305 are executed by the innermost call
Joins == LoopOver /\ top.closeWorkersWhenDone /\ ~top.joined /\ stack' # stack

C14_Added ==
  Joins => top'.failedCount
             = top.failedCount + FailedInWorkers(Val(top.workerPool))

\* C14: when restoreFolder awaits its pool, the value it adds to failedCount
\* is the number of copies that failed inside the workers of the pool.
C14_WorkerFailuresAreReturned == [][C14_Added]_vars

\* C15: once a run in which no exception was raised has returned, every
\* copy that failed, in the main process or in a worker, is counted in the
\* failed count of the report and the version folder it was made for is in
\* the failure list.
C15_CopyFailuresAreReported ==
  (pc = "done" /\ errors = {})
  => LET failed == {c \in copyLog : ~c.ok}
         report == Val(returned)
     IN  /\ report.failedCount >= Cardinality(failed)
         /\ \A c \in failed :
              \E i \in 1..Len(report.failList) :
                report.failList[i].path = c.src.folder

----------------------------------------------------------------------------
(* C18, C19 *)

C18_Copied ==
  LET r == getLatestVersionPath(subnode)
      name == Val(r.latestVersionPath).name
  IN  (/\ HandlesChild
       /\ isVersionFolder(subnode)
       /\ ~subnode.gone
       /\ PathLen(subpath) <= MaxPathLen
       /\ subnode.sub # <<>>
       /\ WellFormed(subnode)
       /\ restore(r.deletionDate, restoreDeletionsAfterDate)
       /\ IsNone(top.workerPool)
       /\ ~dryRun
       /\ top.restorePath \in dstDirs
       /\ ~\E f \in dstFiles : f.dir = top.restorePath /\ f.name = name)
      => \E f \in dstFiles' :
           /\ f.dir = top.restorePath
           /\ f.name = name
           /\ Val(f.src).folder = subpath

\* C18: with no pool and no dry run, the step of restoreFolder that handles
\* a version folder resolved to be restored, whose file is not yet in the
\* restore directory, leaves the file copied there.
C18_SynchronousCopyIsMade == [][C18_Copied]_vars

\* C19: once a top-level call with a pool, no dry run and an existing
\* restore root has returned and no copy has failed, the file of every
\* submitted job is at its destination, no job is left on a queue or in a
\* worker's hands, and for a tree of one live version folder the report
\* shows file count 1 and deleted-file count 0.
C19_RestoredAtReturn ==
  (/\ pc = "done"
   /\ numWorkers # 0
   /\ ~dryRun
   /\ \A c \in copyLog : c.ok)
  => /\ \A i \in 1..Len(submitted) :
          \E f \in dstFiles :
            /\ f.dir = Val(submitted[i].job.dst).dir
            /\ f.name = Val(submitted[i].job.dst).name
     /\ \A p \in DOMAIN workers : \A w \in DOMAIN workers[p] :
          workers[p][w].queue = <<>> /\ workers[p][w].state # "copy"
     /\ backup = Dir(<<LiveFolder>>)
          => Val(returned).fileCount = 1 /\ Val(returned).deletedFileCount = 0

----------------------------------------------------------------------------
(* C16 *)

\* the number of characters of the path of a child: those of the backup
\* root, and a separator and a name for every directory on the way
RECURSIVE Characters(_)
Characters(p) ==
  IF p = <<>> THEN RootPathLen
  ELSE Characters(SubSeq(p, 1, Len(p) - 1)) + 1
         + (IF NodeAt(backup, p).long THEN LongNameLen ELSE ShortNameLen)

C16_OnlyRecorded ==
  (HandlesChild /\ Characters(subpath) > 260)
  => /\ stack' = [stack EXCEPT ![Len(stack)] =
                    [top EXCEPT !.failedCount = @ + 1,
                                !.failList = Append(@, [path |-> subpath,
                                                        file |-> None]),
                                !.next = @ + 1]]
     /\ UNCHANGED <<pools, workers, dstDirs, dstFiles, submitted, copyLog,
                    skipDirectories, errors, pc>>

\* C16: the step of restoreFolder that handles a child whose path is longer
\* than 260 characters adds one to failedCount, appends the path to
\* failList and goes on to the next child; it changes no other local of the
\* call and nothing else: no call is entered, no job submitted, no copy
\* made, no directory created.
C16_LongPathIsOnlyRecorded == [][C16_OnlyRecorded]_vars

\* a run has ended that met a version folder with a path too long and, after
\* it, restored a file
C16_Witness ==
  /\ pc = "done"
  /\ \E p \in VersionFolderPaths :
       /\ Characters(p) > 260
       /\ \E i \in 1..Len(Val(returned).failList) :
            Val(returned).failList[i].path = p
  /\ Val(returned).fileCount >= 1
  /\ Val(returned).failedCount >= 1

----------------------------------------------------------------------------
(* C20 *)

C20_Untouched == dryRun => UNCHANGED <<dstDirs, dstFiles>>

C20_Counted ==
  (dryRun /\ pc = "done" /\ errors = {})
  => Counters(Val(returned)) = Totals(<<>>) /\ copyLog = {}

\* C20: in a dry run no step of the program, of the main process or of a
\* worker, changes the directories or the files of the destination, no
\* copy is attempted, and the counters of the report of a run without
\* exception are the totals over the tree, as in a real run.
C20_DryRunLeavesDestination == [][C20_Untouched]_vars /\ [] C20_Counted

\* a dry run with a pool has ended: a job was submitted and taken by its
\* worker, a directory was entered and one counted as pruned, and the
\* destination holds its root only
C20_Witness ==
  /\ pc = "done"
  /\ dryRun
  /\ submitted # <<>>
  /\ \A p \in DOMAIN workers : \A w \in DOMAIN workers[p] :
       workers[p][w].state = "exited"
  /\ Val(returned).folderCount >= 1
  /\ Val(returned).deletedFolderCount >= 1
  /\ dstDirs = {<<>>}
  /\ dstFiles = {}

----------------------------------------------------------------------------
(* C17 *)

\* the innermost call comes to a plain directory that is in the skip list
MeetsSkipped ==
  /\ HandlesChild
  /\ Characters(subpath) <= 260
  /\ subnode.kind = "dir"
  /\ subpath \in skipDirectories

C17_Skipped ==
  MeetsSkipped
  => /\ skipDirectories' = skipDirectories \ {subpath}
     /\ stack' = [stack EXCEPT ![Len(stack)].next = @ + 1]
     /\ UNCHANGED <<dstDirs, dstFiles, pools, workers, submitted, copyLog,
                    errors, pc>>

C17_OnlyShrinks ==
  skipDirectories' # skipDirectories
  => MeetsSkipped /\ skipDirectories' = skipDirectories \ {subpath}

\* C17: the step of restoreFolder, at any depth, that comes to a plain
\* directory whose path is in the skip list removes that entry from the
\* one list all calls share and goes on to the next child, with no call
\* entered, no directory created and no counter changed; and the list
\* changes in no other step, so that an entry is matched at most once and
\* an entry that is never met stays in the list.
C17_SkippedOnceAndOnlyShrinks == [][C17_Skipped /\ C17_OnlyShrinks]_vars

\* a recursive call has passed its first child, a plain directory, without
\* counting or mirroring it and its entry has left the list, while the
\* entry that is not in the backup is still there
C17_Witness ==
  /\ pc = "walk"
  /\ Len(stack) = 2
  /\ top.next = 2
  /\ top.raised = ""
  /\ NodeAt(backup, Append(top.backupPath, 1)).kind = "dir"
  /\ top.folderCount = 0
  /\ Append(top.restorePath, 1) \notin dstDirs
  /\ Append(top.backupPath, 1) \notin skipDirectories
  /\ NotInBackup \in skipDirectories

----------------------------------------------------------------------------
(* C11, C12 *)

C11_Halted == Interrupted => ~HandlesChild

C11_Flagged == (Interrupted /\ AtReturn /\ stack' # stack) => top.killFlag

\* C11: once a KeyboardInterrupt has been raised in a restoreFolder call, no
\* call at any level handles a further child, every call that returns
\* returns with killFlag True, and the top-level call does return.
C11_InterruptHaltsAndFlags ==
  [][C11_Halted /\ C11_Flagged]_vars /\ [](pc # "crashed")

C12_Kept ==
  (ReturnsToCaller /\ top.killFlag)
  => LET before == stack[Len(stack) - 1]
         after == stack'[Len(stack')]
     IN  /\ after.folderCount = before.folderCount + top.folderCount
         /\ after.fileCount = before.fileCount + top.fileCount
         /\ after.versionCount = before.versionCount + top.versionCount
         /\ after.deletedFileCount = before.deletedFileCount + top.deletedFileCount

\* C12: when a call that was interrupted returns to its caller, the folder,
\* file, version and deleted-file counts of the caller become what it had
\* counted plus what the interrupted call returns.
C12_CountsSurviveInterrupt == [][C12_Kept]_vars

----------------------------------------------------------------------------
(* C21 *)

\* the workers that the jobs submitted to pool p were given to, in the
\* order of submission
RECURSIVE WorkersGiven(_, _)
WorkersGiven(p, n) ==
  IF n = 0 THEN <<>>
  ELSE IF submitted[n].pool = p
  THEN Append(WorkersGiven(p, n - 1), submitted[n].worker)
  ELSE WorkersGiven(p, n - 1)

\* C21: in every pool of N workers the k-th job submitted (k from 0) was
\* put on the queue of worker k mod N, and workerIndex is in 0..N-1.
C21_RoundRobin ==
  \A p \in DOMAIN pools :
    LET given == WorkersGiven(p, Len(submitted))
        N == pools[p].numWorkers
    IN  /\ pools[p].workerIndex \in 0..(N - 1)
        /\ \A k \in 0..(Len(given) - 1) : given[k + 1] = k % N

\* a pool of two workers was given three jobs: the third went to worker 0
\* again and workerIndex is back at 1
C21_Witness ==
  /\ pools # <<>>
  /\ pools[1].numWorkers = 2
  /\ WorkersGiven(1, Len(submitted)) = <<0, 1, 0>>
  /\ pools[1].workerIndex = 1

----------------------------------------------------------------------------
(* C22 *)

\* the jobs submitted to worker w of pool p, in the order of submission
RECURSIVE JobsGiven(_, _, _)
JobsGiven(p, w, n) ==
  IF n = 0 THEN <<>>
  ELSE IF submitted[n].pool = p /\ submitted[n].worker = w
  THEN Append(JobsGiven(p, w, n - 1), submitted[n].job)
  ELSE JobsGiven(p, w, n - 1)

IsCopyJob(msg) == msg.type = "copy"

\* the jobs of worker w of pool p that are not dealt with yet: the one it
\* is copying, and those on its queue
Pending(p, w) ==
  (IF workers[p][w].state = "copy" THEN <<Val(workers[p][w].msg)>> ELSE <<>>)
    \o SelectSeq(workers[p][w].queue, IsCopyJob)

C22_OldestFirst ==
  \A p \in DOMAIN workers : \A w \in DOMAIN workers[p] :
    LET given == JobsGiven(p, w, Len(submitted))
        n == Len(Pending(p, w))
    IN  /\ n <= Len(given)
        /\ Pending(p, w) = SubSeq(given, Len(given) - n + 1, Len(given))

C22_OneAtATime ==
  \A p \in DOMAIN workers \cap DOMAIN workers' : \A w \in DOMAIN workers[p] :
    Len(workers'[p][w].queue) < Len(workers[p][w].queue)
    => /\ workers[p][w].state = "get"
       /\ workers'[p][w].queue = Tail(workers[p][w].queue)

\* C22: at every moment the jobs of a worker that are not dealt with yet
\* are the ones submitted to it last, in the order of submission, and a
\* worker takes a job from its queue only when it has finished the one
\* before, and takes the oldest: of two jobs submitted to one worker the
\* first is copied or skipped before the second is dequeued.
C22_SubmissionOrder == [] C22_OldestFirst /\ [][C22_OneAtATime]_vars

\* a worker was given two jobs, has copied the file of the first and is
\* copying the second
C22_Witness ==
  /\ pools # <<>>
  /\ LET given == JobsGiven(1, 0, Len(submitted)) IN
       /\ Len(given) = 2
       /\ \E f \in dstFiles :
            /\ f.dir = Val(given[1].dst).dir
            /\ f.name = Val(given[1].dst).name
            /\ f.src = given[1].src
       /\ workers[1][0].state = "copy"
       /\ workers[1][0].msg = Some(given[2])

----------------------------------------------------------------------------
(* C23 *)

C23_Bounded ==
  \A p \in DOMAIN workers : \A w \in DOMAIN workers[p] :
    Len(workers[p][w].queue) <= 100

\* the queue of worker w of pool p is full
Full(p, w) == Len(workers[p][w].queue) = 100

\* the main process is about to put on a queue of pool p: the job of a
\* live version folder, or the stop signal
HasToPut(p) ==
  /\ pc = "walk"
  /\ top.workerPool = Some(p)
  /\ \/ Iterating /\ subnode.kind = "vf" /\ Markers(subnode) = {}
     \/ LoopOver /\ top.closeWorkersWhenDone /\ ~pools[p].isClosed

C23_Blocked ==
  \A p \in DOMAIN workers \cap DOMAIN workers' : \A w \in DOMAIN workers[p] :
    Full(p, w)
    => /\ workers'[p][w].queue # workers[p][w].queue
            => workers'[p][w].queue = Tail(workers[p][w].queue)
       /\ (pools[p].numWorkers = 1 /\ HasToPut(p))
            => UNCHANGED <<stack, pools, submitted>>

\* C23: no queue of a worker ever holds more than 100 entries, the stop
\* signal counted; while a queue is full the next change to it is the
\* worker taking its oldest entry; and while the queue of the only worker
\* of the pool is full, the main process, which has a job (copyFile) or the
\* stop signal (closeWorker) to put on it, does not move.
C23_QueueIsBounded == [] C23_Bounded /\ [][C23_Blocked]_vars

\* the main process has put every job, the last one after it had to wait
\* for the worker, and now waits in closeWorker: the queue is full again
C23_Witness ==
  /\ LoopOver
  /\ Len(submitted) > 100
  /\ pools[1].closing = 0
  /\ Full(1, 0)

----------------------------------------------------------------------------
(* C24 *)

\* the job has been dealt with by a worker: its file is at the destination
\* (copied now, or found there and skipped), or its copy was tried and
\* failed, or the run is a dry run and the copy was only announced
Processed(job) ==
  \/ dryRun
  \/ \E f \in dstFiles :
       f.dir = Val(job.dst).dir /\ f.name = Val(job.dst).name
  \/ \E c \in copyLog :
       c.src = Val(job.src) /\ c.dst = Val(job.dst) /\ ~c.ok

\* worker w of pool p has nothing left to do
Drained(p, w) ==
  /\ workers[p][w].queue = <<>>
  /\ IsNone(workers[p][w].msg)
  /\ LET given == JobsGiven(p, w, Len(submitted)) IN
       \A i \in 1..Len(given) : Processed(given[i])

\* C24: a worker that has ended on the stop signal has taken every job
\* that was submitted to it and dealt with it (copied, announced in a dry
\* run, skipped or failed); and when waitForWorkersToClose has returned in
\* restoreFolder, every worker of the pool has ended so.
C24_DrainedBeforeExit ==
  /\ \A p \in DOMAIN workers : \A w \in DOMAIN workers[p] :
       workers[p][w].state = "exited" => Drained(p, w)
  /\ (pc = "walk" /\ top.joined)
       => \A w \in DOMAIN workers[Val(top.workerPool)] :
            /\ workers[Val(top.workerPool)][w].state = "exited"
            /\ Drained(Val(top.workerPool), w)

\* waitForWorkersToClose has returned for a pool of two workers that was
\* given three jobs, and the files of two version folders are restored
C24_Witness ==
  /\ pc = "walk"
  /\ top.joined
  /\ pools[1].numWorkers = 2
  /\ Len(submitted) = 3
  /\ ~dryRun
  /\ Cardinality(dstFiles) = 2

----------------------------------------------------------------------------
(* C25 *)

\* restoreFolder has come to line 303 and calls closePool
ClosePoolCalled == LoopOver /\ top.closeWorkersWhenDone

AllExited ==
  \A p \in DOMAIN workers : \A w \in DOMAIN workers[p] :
    workers[p][w].state = "exited"

\* C25: with every worker scheduled fairly and every copy terminating, once
\* closePool has been called every worker eventually ends and
\* waitForWorkersToClose eventually returns.
C25_PoolCloses ==
  /\ ClosePoolCalled ~> AllExited
  /\ ClosePoolCalled ~> (pc = "walk" /\ top.joined)

\* closePool was called with a job still on the queue of each of two
\* workers
C25_Witness ==
  /\ ClosePoolCalled
  /\ pools[1].closing = 0
  /\ pools[1].numWorkers = 2
  /\ \A w \in DOMAIN workers[1] : SelectSeq(workers[1][w].queue, IsCopyJob) # <<>>

----------------------------------------------------------------------------
(* C26 *)

\* the copy that worker w of pool p was making ends without the file
\* written
CopyFails(p, w) ==
  /\ workers[p][w].state = "copy"
  /\ workers'[p][w].state # "copy"
  /\ dstFiles' = dstFiles

C26_CountedAndGoesOn ==
  \A p \in DOMAIN workers \cap DOMAIN workers' : \A w \in DOMAIN workers[p] :
    CopyFails(p, w)
    => /\ workers'[p][w].failedCount = workers[p][w].failedCount + 1
       /\ workers'[p][w].state = "get"
       /\ workers'[p][w].queue = workers[p][w].queue

\* worker w of the pool has had a copy fail and has messages left
FailedWithWorkLeft(w) ==
  IF pools = <<>> THEN FALSE
  ELSE IF w \notin DOMAIN workers[1] THEN FALSE
  ELSE workers[1][w].failedCount > 0 /\ workers[1][w].queue # <<>>

\* worker w of the pool has nothing left to do
NothingLeft(w) ==
  IF pools = <<>> THEN FALSE
  ELSE IF w \notin DOMAIN workers[1] THEN FALSE
  ELSE Drained(1, w)

\* C26: the step of a worker in which its copy fails adds exactly one to
\* the worker's failedCount and leaves the worker waiting for its next
\* message with its queue as it was; and, the worker being scheduled, a
\* worker that has had a copy fail goes on to take every message left on
\* its queue and to deal with every job given to it.
C26_FailureDoesNotStopWorker ==
  /\ [][C26_CountedAndGoesOn]_vars
  /\ \A w \in 0..(MaxPoolWorkers - 1) :
       FailedWithWorkLeft(w) ~> NothingLeft(w)

\* the only worker has failed to copy the file of the first version folder
\* and has then copied the file of the second
C26_Witness ==
  /\ pools # <<>>
  /\ pools[1].numWorkers = 1
  /\ workers[1][0].failedCount = 1
  /\ \E c \in copyLog : ~c.ok /\ c.src.folder = <<1>>
  /\ \E f \in dstFiles : Val(f.src).folder = <<2>>

----------------------------------------------------------------------------
(* C27 *)

C27_Recorded ==
  (HandlesChild /\ subnode.kind = "vf" /\ subnode.gone)
  => /\ top'.failedCount = top.failedCount + 1
     /\ UNCHANGED <<submitted, copyLog>>
     /\ top'.raised = ""
     /\ top'.next = top.next + 1

\* C27: the step of restoreFolder that handles a version folder which was
\* removed after its parent was listed adds one to failedCount, submits no
\* job and makes no copy, raises nothing out of the loop and goes on to the
\* next child of the directory.
C27_VanishedFolderIsAFailure == [][C27_Recorded]_vars

----------------------------------------------------------------------------
(* C28 *)

\* the version folder at p is there, is read, and each of its version date
\* folders holds a deletion marker and nothing else
AllMarkers(p) ==
  LET v == NodeAt(backup, p) IN
  /\ ~v.gone
  /\ Characters(p) <= 260
  /\ v.sub # <<>>
  /\ \A e \in Range(v.sub) : IsMarker(e)

C28_NothingRestored ==
  \A p \in VersionFolderPaths :
    AllMarkers(p) => JobsFor(p) = {} /\ CopiesFor(p) = {}

C28_NoMarkerCopied ==
  /\ \A i \in 1..Len(submitted) : Val(submitted[i].job.src).name # "cbbdeleted"
  /\ \A c \in copyLog : c.src.name # "cbbdeleted"

C28_NewestMarker ==
  \A p \in VersionFolderPaths :
    AllMarkers(p)
    => getLatestVersionPath(NodeAt(backup, p)).deletionDate
         = Some(NewestOf(Range(NodeAt(backup, p).sub)).name)

\* C28: for a version folder whose entries are all deletion markers, with
\* any cutoff or none, no job is ever submitted and no copy ever made; no
\* job or copy has a deletion marker as its source; and the deletion
\* timestamp that the resolver records is that of the newest marker.
C28_AllMarkersRestoreNothing ==
  C28_NothingRestored /\ C28_NoMarkerCopied /\ C28_NewestMarker

----------------------------------------------------------------------------
(* C29 *)

\* C29: no pool is ever created by a recursive call, so that a run has at
\* most the pool of its top-level call; and in a run whose top-level call
\* is given neither a pool nor a number of workers there is no pool and no
\* worker process, and no job is put on a queue.
C29_NoPoolInRecursion ==
  /\ Len(pools) <= 1
  /\ \A i \in 1..Len(stack) : stack[i].closeWorkersWhenDone => i = 1
  /\ numWorkers = 0 => pools = <<>> /\ workers = <<>> /\ submitted = <<>>

----------------------------------------------------------------------------
(* C30 *)

\* the restore root exists (it was there, empty, when the run began: the
\* program neither creates nor removes it) and the run is no dry run
FreshRealRun == ~dryRun /\ <<>> \in dstDirs /\ preExisting = {}

\* the directory that every submitted job copies into is there: when the
\* job is submitted, while it waits, when a worker copies it, and after
C30_TargetExists ==
  FreshRealRun
  => /\ \A i \in 1..Len(submitted) : Val(submitted[i].job.dst).dir \in dstDirs
     /\ \A p \in DOMAIN workers : \A w \in DOMAIN workers[p] :
          workers[p][w].state = "copy"
          => Val(Val(workers[p][w].msg).dst).dir \in dstDirs

\* the caller of the returning call goes on to line 288
Prunes ==
  /\ ReturnsToCaller
  /\ ~top.killFlag
  /\ deleteEmptyDirectories
  /\ top.fileCount = top.deletedFileCount

C30_PrunesEmpty ==
  (FreshRealRun /\ Prunes)
  => /\ top.restorePath \in dstDirs
     /\ ~\E f \in dstFiles : f.dir = top.restorePath
     /\ ~\E d \in dstDirs : Len(d) = Len(top.restorePath) + 1
                            /\ SubSeq(d, 1, Len(top.restorePath)) = top.restorePath
     /\ ~\E i \in 1..Len(submitted) :
           Val(submitted[i].job.dst).dir = top.restorePath

\* C30: in a run that is no dry run, into a restore root that exists and
\* was empty, the directory a job copies into exists when the job is
\* submitted and from then on, in particular when a worker makes the copy;
\* and every rmdir of pruning is called for a directory that exists, holds
\* no file and no directory, and is the target of no submitted job.
C30_CopiesFindTheirDirectory == [] C30_TargetExists /\ [][C30_PrunesEmpty]_vars

----------------------------------------------------------------------------
(* C31 *)

\* C31: no destination is written by two copies of one run: of the copies
\* that have written their file, no two have the same destination.
C31_WrittenOnce ==
  \A c1, c2 \in copyLog :
    (c1.ok /\ c2.ok /\ c1.dst = c2.dst) => c1 = c2

----------------------------------------------------------------------------
(* C32 *)

\* C32: whether or not a worker was interrupted during a copy and has left
\* its queue, the program never comes to a state where the top-level call
\* of restoreFolder has not returned and no process can take a step: the
\* main process is never left waiting for ever in the put of copyFile or
\* of closeWorker, or in a join.
C32_CoordinatorReturns == pc = "done" \/ ENABLED StopNext

----------------------------------------------------------------------------
(* C33 *)

\* the call that returns to its caller has counted no version folder, and
\* reports no interrupt
CountedNone == ReturnsToCaller /\ top.fileCount = 0 /\ ~top.killFlag

C33_Pruned ==
  (CountedNone /\ deleteEmptyDirectories)
  => /\ top.deletedFileCount = 0
     /\ top.restorePath \notin dstDirs'
     /\ stack'[Len(stack')].deletedFolderCount
          = stack[Len(stack) - 1].deletedFolderCount + 1 + top.deletedFolderCount

C33_Disabled ==
  ~deleteEmptyDirectories
  => /\ dstDirs \subseteq dstDirs'
     /\ \A i \in 1..Len(stack) : stack[i].deletedFolderCount = 0
     /\ returned # None => Val(returned).deletedFolderCount = 0

\* C33: with deleteEmptyDirectories, when the call for a plain directory
\* returns a file count of 0 (and no interrupt to pass on), its
\* deleted-file count is 0 too, the mirrored
\* directory is gone after the caller's step and the caller's pruned-folder
\* count has grown by one (plus what the call returns); without
\* deleteEmptyDirectories no step removes a mirrored directory and every
\* pruned-folder count is 0.
C33_EmptyWalkIsPruned == [][C33_Pruned /\ C33_Disabled]_vars

====
